---- MODULE Spec2Model ----
(***************************************************************************)
(* Model of auto_switch.py: WaterHeaterController, a timer-driven daemon    *)
(* that locates a relay by its custom name, sets its initial state from    *)
(* the active AC input source and then follows changes of that source.     *)
(*                                                                         *)
(* Every GLib timeout callback runs to completion, so each callback is one *)
(* action.  The D-Bus services are the environment: each action draws the  *)
(* replies of the D-Bus calls it makes from small sets.                    *)
(*                                                                         *)
(* Python's None is the empty sequence, a present value v is <<v>>.        *)
(***************************************************************************)
EXTENDS Integers, Sequences, FiniteSets, TLC

None == << >>

Some(v) == << v >>

\* ---------------------------------------------------------------- constants

MAX_RELAY_NUMBER_TO_CHECK == 10

TARGET_CUSTOM_NAMES == {"AC Water Heater", "AC WH"}

Slots == 0 .. (MAX_RELAY_NUMBER_TO_CHECK - 1)

\* ------------------------------------------------------------------- bounds

\* the relay slots with a settings object are 0 .. MaxNamedSlot and the last
\* slot of the scan; every other slot answers "no object"
MaxNamedSlot == 0

\* AC source codes outside the documented ones range over 5 .. MaxOtherCode
MaxOtherCode == 6

\* ---------------------------------------------------- environment replies

KnownCodes == {0, 1, 2, 3, 4, 240}

Codes == KnownCodes \cup (5 .. MaxOtherCode) \cup {-1}

\* a D-Bus read: the object lookup fails, GetValue raises, or a value comes back
NoObj == [kind |-> "noobj", value |-> None]

GetErr == [kind |-> "err", value |-> None]

Ok(v) == [kind |-> "ok", value |-> Some(v)]

AcReplies == {NoObj, GetErr} \cup {Ok(v) : v \in Codes}

CustomNames == TARGET_CUSTOM_NAMES \cup {"Bilge"}

NameReplies == {NoObj, GetErr} \cup {Ok(n) : n \in CustomNames}

NamedSlots == (0 .. MaxNamedSlot) \cup {MAX_RELAY_NUMBER_TO_CHECK - 1}

\* a D-Bus write: the object lookup fails, SetValue raises, or the value is set
SetReplies == {"noobj", "err", "ok"}

\* the settings service as seen by one scan
NameConfig(g) == [s \in Slots |-> IF s \in NamedSlots THEN g[s] ELSE NoObj]

\* ---------------------------------------------------------------- logging

Log(level, msg) == [level |-> level, msg |-> msg]

\* ------------------------------------------------------------------- state

VARIABLES
    timers,                     \* GLib timeout sources per callback
    water_heater_relay_number,  \* self.water_heater_relay_number
    previous_ac_source,         \* self.previous_ac_source
    initial_state_set,          \* self.initial_state_set
    relay_found,                \* self.relay_found
    warning_logged,             \* self._ac_source_unavailable_warning_logged
    relayState,                 \* /Relay/<n>/State of com.victronenergy.system
    \* what the last callback did
    lastTick,                   \* which callback ran last
    scanNames,                  \* the custom names offered to the last scan
    probed,                     \* slots whose custom name the last callback read
    acReply,                    \* reply to the last callback's AC source read
    source_text,                \* classification computed by the last callback
    setCalls,                   \* _set_relay_state calls of the last callback
    logs,                       \* log records of the last callback
    \* history
    histLastValue,              \* latest successfully read AC source value
    histLastReadFailed,         \* the latest AC source read failed
    histMatchSeen,              \* some scan was offered a target name
    histAnyWrite,               \* _set_relay_state has been called
    histInitAttempted,          \* the Initializer has called _set_relay_state
    histInitSucceeded,          \* an Initializer call returned True
    histWriteFailed             \* some _set_relay_state call returned False

ctl == <<timers, water_heater_relay_number, previous_ac_source,
         initial_state_set, relay_found, warning_logged, relayState>>

obs == <<lastTick, scanNames, probed, acReply, source_text, setCalls, logs>>

hist == <<histLastValue, histLastReadFailed, histMatchSeen, histAnyWrite,
          histInitAttempted, histInitSucceeded, histWriteFailed>>

vars == <<ctl, obs, hist>>

\* ----------------------------------------------------------------- helpers

get_dbus_object(kind) == kind # "noobj"

\* variant: a failing GetValue yields 0 instead of None
get_dbus_value_zero(reply) ==
    IF get_dbus_object(reply.kind)
    THEN IF reply.kind = "ok"
         THEN [value |-> reply.value, logs |-> << >>]
         ELSE [value |-> Some(0), logs |-> << Log("error", "get_value") >>]
    ELSE [value |-> None, logs |-> << >>]

get_dbus_value(reply) ==
    IF get_dbus_object(reply.kind)
    THEN IF reply.kind = "ok"
         THEN [value |-> reply.value, logs |-> << >>]
         ELSE [value |-> None, logs |-> << Log("error", "get_value") >>]
    ELSE [value |-> None, logs |-> << >>]

set_relay_state(relay_number, value, reply) ==
    IF relay_number # None /\ get_dbus_object(reply)
    THEN IF reply = "ok"
         THEN [ret |-> TRUE, logs |-> << Log("info", "set") >>]
         ELSE [ret |-> FALSE, logs |-> << Log("error", "set_value") >>]
    ELSE [ret |-> FALSE, logs |-> << >>]

Text(label) == [label |-> label, raw |-> None]

\* variant: the Shore test reads "value == 3"
interpret_ac_source_no4(value) ==
    IF value = 0 THEN Text("Unavailable")
    ELSE IF value = 1 THEN Text("Grid")
    ELSE IF value = 2 THEN Text("Generator")
    ELSE IF value = 3 THEN Text("Shore")
    ELSE IF value = 240 THEN Text("Inverting")
    ELSE [label |-> "Unknown", raw |-> Some(value)]

interpret_ac_source(value) ==
    IF value = 0 THEN Text("Unavailable")
    ELSE IF value = 1 THEN Text("Grid")
    ELSE IF value = 2 THEN Text("Generator")
    ELSE IF value \in {3, 4} THEN Text("Shore")
    ELSE IF value = 240 THEN Text("Inverting")
    ELSE [label |-> "Unknown", raw |-> Some(value)]

\* variant: only Grid turns the relay on
RelayCommand_gridOnly(text) == IF text = Text("Grid") THEN 1 ELSE 0

\* variant: Generator also turns the relay on
RelayCommand_generator(text) ==
    IF text \in {Text("Grid"), Text("Shore"), Text("Generator")} THEN 1 ELSE 0

RelayCommand(text) == IF text \in {Text("Grid"), Text("Shore")} THEN 1 ELSE 0

\* variant: the Monitor compares categories instead of raw values
SourceChanged_category(source_value, previous) ==
    \/ previous = None
    \/ interpret_ac_source(source_value[1]) # interpret_ac_source(previous[1])

SourceChanged(source_value, previous) == source_value # previous

\* variant: any readable custom name is taken for the water heater
IsTargetName_any(custom_name) == custom_name # None

IsTargetName(custom_name) ==
    custom_name # None /\ custom_name[1] \in TARGET_CUSTOM_NAMES

\* variant: the loop has no early return, the last matching slot wins
RECURSIVE ScanFrom_last(_, _)
ScanFrom_last(names, n) ==
    IF n >= MAX_RELAY_NUMBER_TO_CHECK
    THEN [found |-> None, probed |-> << >>, logs |-> << >>]
    ELSE LET rd == get_dbus_value(names[n])
             rest == ScanFrom_last(names, n + 1)
         IN  [found |-> IF rest.found # None THEN rest.found
                        ELSE IF IsTargetName(rd.value) THEN Some(n) ELSE None,
              probed |-> << n >> \o rest.probed,
              logs |-> rd.logs \o rest.logs]

\* variant: a failed read ends the scan
RECURSIVE ScanFrom_abort(_, _)
ScanFrom_abort(names, n) ==
    IF n >= MAX_RELAY_NUMBER_TO_CHECK
    THEN [found |-> None, probed |-> << >>, logs |-> << >>]
    ELSE LET rd == get_dbus_value(names[n])
         IN  IF IsTargetName(rd.value)
             THEN [found |-> Some(n), probed |-> << n >>, logs |-> rd.logs]
             ELSE IF rd.value = None
             THEN [found |-> None, probed |-> << n >>, logs |-> rd.logs]
             ELSE LET rest == ScanFrom_abort(names, n + 1)
                  IN  [found |-> rest.found,
                       probed |-> << n >> \o rest.probed,
                       logs |-> rd.logs \o rest.logs]

\* the slot at which the for loop started at slot n returns, or
\* MAX_RELAY_NUMBER_TO_CHECK when it runs to its end
RECURSIVE ScanStop(_, _)
ScanStop(names, n) ==
    IF n >= MAX_RELAY_NUMBER_TO_CHECK THEN MAX_RELAY_NUMBER_TO_CHECK
    ELSE IF IsTargetName(get_dbus_value(names[n]).value) THEN n
    ELSE ScanStop(names, n + 1)

\* the records logged by the reads of slots n .. last
RECURSIVE ScanLogs(_, _, _)
ScanLogs(names, n, last) ==
    IF n > last THEN << >>
    ELSE get_dbus_value(names[n]).logs \o ScanLogs(names, n + 1, last)

\* the for loop of _find_water_heater_relay from slot n on: the slot found,
\* the slots read and the records logged
ScanFrom(names, n) ==
    LET stop == ScanStop(names, n)
        last == IF stop < MAX_RELAY_NUMBER_TO_CHECK THEN stop
                ELSE MAX_RELAY_NUMBER_TO_CHECK - 1
    IN  [found |-> IF stop < MAX_RELAY_NUMBER_TO_CHECK THEN Some(stop) ELSE None,
         probed |-> [i \in 1 .. (last - n + 1) |-> n + i - 1],
         logs |-> ScanLogs(names, n, last)]

\* variant: the else branch (turn off) is missing
DriveRelay_onOnly(relay_number, text, reply) ==
    LET value == RelayCommand(text)
        wr == set_relay_state(relay_number, value, reply)
    IN  IF value = 1
        THEN [calls |-> << [relay |-> relay_number, value |-> value,
                            ret |-> wr.ret] >>,
              logs |-> wr.logs]
        ELSE [calls |-> << >>, logs |-> << >>]

\* the if/else around _set_relay_state shared by both callbacks: the calls
\* made (relay, value, return value) and the records they log
DriveRelay(relay_number, text, reply) ==
    LET value == RelayCommand(text)
        wr == set_relay_state(relay_number, value, reply)
    IN  [calls |-> << [relay |-> relay_number, value |-> value, ret |-> wr.ret] >>,
         logs |-> wr.logs]

\* the system service after the calls of one callback (at most one call)
RelayAfter(calls) ==
    IF calls # << >> /\ calls[1].ret
    THEN [relayState EXCEPT ![calls[1].relay[1]] = calls[1].value]
    ELSE relayState

\* "if self._ac_source_unavailable_warning_logged: logging.info(...)"
RecoveryLogs(flag, msg) == IF flag THEN << Log("info", msg) >> ELSE << >>

\* variant: the flag is never reset
FlagAfterSuccess_keep(flag) == flag

\* "if self._ac_source_unavailable_warning_logged: ... = False"
FlagAfterSuccess(flag) == IF flag THEN FALSE ELSE flag

\* variant: the warning is not suppressed
WarningLogs_always(flag, msg) == << Log("warning", msg) >>

\* "if not self._ac_source_unavailable_warning_logged: logging.warning(...)"
WarningLogs(flag, msg) == IF ~flag THEN << Log("warning", msg) >> ELSE << >>

\* "if not self._ac_source_unavailable_warning_logged: ... = True"
FlagAfterFailure(flag) == IF ~flag THEN TRUE ELSE flag

\* variant: the Initializer's source stays after it started the Monitor
InitializerTimers_stay(t, source_value) ==
    IF source_value # None
    THEN [t EXCEPT !.monitor = @ + 1]
    ELSE t

\* variant: _initialize_monitoring returns False when the source is unreadable
InitializerTimers_stop(t, source_value) ==
    IF source_value # None
    THEN [t EXCEPT !.init = @ - 1, !.monitor = @ + 1]
    ELSE [t EXCEPT !.init = @ - 1]

\* the GLib sources after _initialize_monitoring got past its guard: with a
\* value it adds the Monitor's timeout and returns False (its own source is
\* removed), without one it returns True (its source stays)
InitializerTimers(t, source_value) ==
    IF source_value # None
    THEN [t EXCEPT !.init = @ - 1, !.monitor = @ + 1]
    ELSE t

\* variant: the Locator returns True after it found the relay
LocatorTimers_keep(t, found) ==
    IF found # None THEN [t EXCEPT !.init = @ + 1] ELSE t

\* variant: the Locator adds the Monitor's timeout instead of the Initializer's
LocatorTimers_monitor(t, found) ==
    IF found # None
    THEN [t EXCEPT !.locator = @ - 1, !.monitor = @ + 1]
    ELSE t

\* variant: the Locator adds no timeout when it found the relay
LocatorTimers_noInit(t, found) ==
    IF found # None THEN [t EXCEPT !.locator = @ - 1] ELSE t

\* the GLib sources after a scan of _find_water_heater_relay: a found relay
\* adds the Initializer's timeout and returns False, no relay returns True
LocatorTimers(t, found) ==
    IF found # None
    THEN [t EXCEPT !.locator = @ - 1, !.init = @ + 1]
    ELSE t

\* variant: the Monitor returns False when the source is unreadable
MonitorTimers_stopOnFailure(t, source_value) ==
    IF source_value = None THEN [t EXCEPT !.monitor = @ - 1] ELSE t

\* the GLib sources after _monitor_ac_input_source got past its guard: it
\* returns True on every path
MonitorTimers(t, source_value) == t

\* variant: the baseline only advances when the relay write returned True
PreviousAfterWrite_ifSet(source_value, previous, calls) ==
    IF calls # << >> /\ calls[1].ret THEN source_value ELSE previous

\* previous_ac_source after the Monitor's _set_relay_state call
PreviousAfterWrite(source_value, previous, calls) == source_value

\* variant: "self.previous_ac_source = source_value" also runs when the
\* source is unreadable
PreviousAfterFailure_assign(source_value, previous) == source_value

\* previous_ac_source after the Monitor's unreadable branch: not assigned
PreviousAfterFailure(source_value, previous) == previous

\* variant: the constructor starts with initial_state_set = True
InitController_set ==
    [water_heater_relay_number |-> None,
     previous_ac_source |-> None,
     initial_state_set |-> TRUE,
     relay_found |-> FALSE,
     warning_logged |-> FALSE,
     timers |-> [locator |-> 1, init |-> 0, monitor |-> 0]]

\* the controller after __init__
InitController ==
    [water_heater_relay_number |-> None,
     previous_ac_source |-> None,
     initial_state_set |-> FALSE,
     relay_found |-> FALSE,
     warning_logged |-> FALSE,
     timers |-> [locator |-> 1, init |-> 0, monitor |-> 0]]

\* -------------------------------------------------------------------- Init

Init ==
    /\ timers = InitController.timers
    /\ water_heater_relay_number = InitController.water_heater_relay_number
    /\ previous_ac_source = InitController.previous_ac_source
    /\ initial_state_set = InitController.initial_state_set
    /\ relay_found = InitController.relay_found
    /\ warning_logged = InitController.warning_logged
    /\ relayState \in {[s \in Slots |-> b] : b \in {0, 1}}
    /\ lastTick = "none"
    /\ scanNames = None
    /\ probed = << >>
    /\ acReply = None
    /\ source_text = None
    /\ setCalls = << >>
    /\ logs = << >>
    /\ histLastValue = None
    /\ histLastReadFailed = FALSE
    /\ histMatchSeen = FALSE
    /\ histAnyWrite = FALSE
    /\ histInitAttempted = FALSE
    /\ histInitSucceeded = FALSE
    /\ histWriteFailed = FALSE

\* ----------------------------------------------------------------- actions

\* a scan is offered a target name in some slot
OffersTarget(names) ==
    \E s \in Slots : names[s].kind = "ok" /\ names[s].value[1] \in TARGET_CUSTOM_NAMES

\* GLib runs _find_water_heater_relay
find_water_heater_relay(names) ==
    /\ timers.locator > 0
    /\ lastTick' = "locator"
    /\ IF relay_found
       THEN /\ timers' = [timers EXCEPT !.locator = @ - 1]
            /\ scanNames' = None
            /\ probed' = << >>
            /\ logs' = << >>
            /\ UNCHANGED <<water_heater_relay_number, relay_found, histMatchSeen>>
       ELSE LET sc == ScanFrom(names, 0)
            IN  /\ scanNames' = Some(names)
                /\ probed' = sc.probed
                /\ histMatchSeen' = (histMatchSeen \/ OffersTarget(names))
                /\ IF sc.found # None
                   THEN /\ water_heater_relay_number' = sc.found
                        /\ relay_found' = TRUE
                        /\ timers' = LocatorTimers(timers, sc.found)
                        /\ logs' = << Log("info", "attempt") >> \o sc.logs
                                   \o << Log("info", "found") >>
                   ELSE /\ timers' = LocatorTimers(timers, sc.found)
                        /\ logs' = << Log("info", "attempt") >> \o sc.logs
                                   \o << Log("info", "retry") >>
                        /\ UNCHANGED <<water_heater_relay_number, relay_found>>
    /\ acReply' = None
    /\ source_text' = None
    /\ setCalls' = << >>
    /\ UNCHANGED <<previous_ac_source, initial_state_set, warning_logged,
                   relayState, histLastValue, histLastReadFailed,
                   histAnyWrite, histInitAttempted, histInitSucceeded,
                   histWriteFailed>>

\* GLib runs _initialize_monitoring
initialize_monitoring(acR, setR) ==
    /\ timers.init > 0
    /\ lastTick' = "init"
    /\ scanNames' = None
    /\ probed' = << >>
    /\ UNCHANGED <<water_heater_relay_number, relay_found, histMatchSeen>>
    /\ IF initial_state_set \/ water_heater_relay_number = None
       THEN /\ timers' = [timers EXCEPT !.init = @ - 1]
            /\ acReply' = None
            /\ source_text' = None
            /\ setCalls' = << >>
            /\ logs' = << >>
            /\ UNCHANGED <<previous_ac_source, initial_state_set,
                           warning_logged, relayState, histLastValue,
                           histLastReadFailed, histAnyWrite,
                           histInitAttempted, histInitSucceeded,
                           histWriteFailed>>
       ELSE LET rd == get_dbus_value(acR)
                source_value == rd.value
            IN  /\ acReply' = Some(acR)
                /\ histLastReadFailed' = (acR.kind # "ok")
                /\ histLastValue' = IF acR.kind = "ok" THEN acR.value
                                    ELSE histLastValue
                /\ timers' = InitializerTimers(timers, source_value)
                /\ IF source_value # None
                   THEN LET text == interpret_ac_source(source_value[1])
                            dr == DriveRelay(water_heater_relay_number, text, setR)
                        IN  /\ logs' = rd.logs
                                   \o RecoveryLogs(warning_logged, "recovered")
                                   \o << Log("info", "initial_source") >>
                                   \o dr.logs
                            /\ warning_logged' = FlagAfterSuccess(warning_logged)
                            /\ source_text' = Some(text)
                            /\ setCalls' = dr.calls
                            /\ relayState' = RelayAfter(dr.calls)
                            /\ previous_ac_source' = source_value
                            /\ initial_state_set' = TRUE
                            /\ histAnyWrite' = (histAnyWrite \/ dr.calls # << >>)
                            /\ histInitAttempted' =
                                   (histInitAttempted \/ dr.calls # << >>)
                            /\ histInitSucceeded' =
                                   (histInitSucceeded
                                    \/ \E i \in 1 .. Len(dr.calls) : dr.calls[i].ret)
                            /\ histWriteFailed' =
                                   (histWriteFailed
                                    \/ \E i \in 1 .. Len(dr.calls) : ~dr.calls[i].ret)
                   ELSE /\ logs' = rd.logs
                                   \o WarningLogs(warning_logged, "unavailable")
                        /\ warning_logged' = FlagAfterFailure(warning_logged)
                        /\ source_text' = None
                        /\ setCalls' = << >>
                        /\ UNCHANGED <<previous_ac_source, initial_state_set,
                                       relayState, histAnyWrite,
                                       histInitAttempted, histInitSucceeded,
                                       histWriteFailed>>

\* GLib runs _monitor_ac_input_source; it returns True on every path
monitor_ac_input_source(acR, setR) ==
    /\ timers.monitor > 0
    /\ lastTick' = "monitor"
    /\ scanNames' = None
    /\ probed' = << >>
    /\ UNCHANGED <<water_heater_relay_number, relay_found,
                   initial_state_set, histMatchSeen, histInitAttempted,
                   histInitSucceeded>>
    /\ IF ~initial_state_set \/ water_heater_relay_number = None
       THEN /\ timers' = timers
            /\ acReply' = None
            /\ source_text' = None
            /\ setCalls' = << >>
            /\ logs' = << >>
            /\ UNCHANGED <<previous_ac_source, warning_logged, relayState,
                           histLastValue, histLastReadFailed, histAnyWrite,
                           histWriteFailed>>
       ELSE LET rd == get_dbus_value(acR)
                source_value == rd.value
            IN  /\ acReply' = Some(acR)
                /\ histLastReadFailed' = (acR.kind # "ok")
                /\ histLastValue' = IF acR.kind = "ok" THEN acR.value
                                    ELSE histLastValue
                /\ timers' = MonitorTimers(timers, source_value)
                /\ IF source_value # None
                   THEN /\ warning_logged' = FlagAfterSuccess(warning_logged)
                        /\ IF SourceChanged(source_value, previous_ac_source)
                           THEN LET text == interpret_ac_source(source_value[1])
                                    dr == DriveRelay(water_heater_relay_number,
                                                     text, setR)
                                IN  /\ logs' = rd.logs
                                           \o RecoveryLogs(warning_logged, "recovered")
                                           \o << Log("info", "source_changed") >>
                                           \o dr.logs
                                    /\ source_text' = Some(text)
                                    /\ setCalls' = dr.calls
                                    /\ relayState' = RelayAfter(dr.calls)
                                    /\ previous_ac_source' =
                                           PreviousAfterWrite(source_value,
                                               previous_ac_source, dr.calls)
                                    /\ histAnyWrite' =
                                           (histAnyWrite \/ dr.calls # << >>)
                                    /\ histWriteFailed' =
                                           (histWriteFailed
                                            \/ \E i \in 1 .. Len(dr.calls) :
                                                   ~dr.calls[i].ret)
                           ELSE /\ logs' = rd.logs
                                           \o RecoveryLogs(warning_logged, "recovered")
                                /\ source_text' = None
                                /\ setCalls' = << >>
                                /\ UNCHANGED <<previous_ac_source, relayState,
                                               histAnyWrite, histWriteFailed>>
                   ELSE /\ logs' = rd.logs
                                   \o WarningLogs(warning_logged, "unavailable")
                        /\ warning_logged' = FlagAfterFailure(warning_logged)
                        /\ source_text' = None
                        /\ setCalls' = << >>
                        /\ previous_ac_source' =
                               PreviousAfterFailure(source_value,
                                                    previous_ac_source)
                        /\ UNCHANGED <<relayState, histAnyWrite,
                                       histWriteFailed>>

\* ----------------------------------------------------------- specification

\* GLib dispatches a callback whose timeout source is installed; the replies
\* of the D-Bus services are free
LocatorTick ==
    /\ timers.locator > 0
    /\ \E g \in [NamedSlots -> NameReplies] :
           find_water_heater_relay(NameConfig(g))

InitializerTick ==
    /\ timers.init > 0
    /\ \E acR \in AcReplies : \E setR \in SetReplies :
           initialize_monitoring(acR, setR)

MonitorTick ==
    /\ timers.monitor > 0
    /\ \E acR \in AcReplies : \E setR \in SetReplies :
           monitor_ac_input_source(acR, setR)

Next == LocatorTick \/ InitializerTick \/ MonitorTick

Spec == Init /\ [][Next]_vars

\* the GLib main loop dispatches every timeout source that stays installed
LiveSpec ==
    /\ Init
    /\ [][Next]_vars
    /\ WF_vars(LocatorTick)
    /\ WF_vars(InitializerTick)
    /\ WF_vars(MonitorTick)

\* ------------------------------------------------------------- properties

ReadOk == acReply # None /\ acReply[1].kind = "ok"

ReadFailed == acReply # None /\ acReply[1].kind # "ok"

ReadValue == acReply[1].value[1]

Count(msg, l) == Cardinality({i \in 1 .. Len(l) : l[i].msg = msg})

UpTo(n) == [i \in 1 .. n |-> i - 1]

IsTargetSlot(names, s) ==
    names[s].kind = "ok" /\ names[s].value[1] \in TARGET_CUSTOM_NAMES

\* C1: over the successful AC source reads, the first one (made by the
\* Initializer) is followed by exactly one relay write attempt, and every later
\* one by a write attempt if and only if its value differs from the previous
\* successful reading; failed reads in between do not count.
C1_WriteIffValueChanged ==
    [][ (acReply' # None /\ acReply'[1].kind = "ok") =>
            /\ Len(setCalls') =
                   IF histLastValue = None \/ acReply'[1].value # histLastValue
                   THEN 1 ELSE 0
            /\ (histLastValue = None <=> lastTick' = "init") ]_vars

\* the Monitor wrote on a changed value that maps to the same command as before
C1_Witness ==
    /\ lastTick = "monitor"
    /\ ReadOk /\ ReadValue = 3
    /\ setCalls # << >>
    /\ relayState[water_heater_relay_number[1]] = 1
    /\ setCalls[1].value = 1 /\ setCalls[1].ret

\* C2: every relay write attempted by the Initializer or the Monitor carries 1
\* if the reading that triggered it is 1, 3 or 4 and 0 for any other reading;
\* no write carries a value outside {0, 1}.
C2_WriteValue ==
    \A i \in 1 .. Len(setCalls) :
        /\ ReadOk
        /\ setCalls[i].value \in {0, 1}
        /\ setCalls[i].value = IF ReadValue \in {1, 3, 4} THEN 1 ELSE 0

C2_Witness ==
    /\ setCalls # << >>
    /\ ReadOk /\ ReadValue = 2
    /\ setCalls[1].value = 0

\* C3: the classifier maps 0 to Unavailable, 1 to Grid, 2 to Generator, 3 and 4
\* to Shore, 240 to Inverting and every other code to Unknown carrying the raw
\* code; it is defined for every code read, and an Unknown reading commands off.
C3_Classifier ==
    /\ (lastTick = "init" /\ ReadOk) => source_text # None
    /\ source_text # None =>
         /\ ReadOk
         /\ LET t == source_text[1]
                v == ReadValue
            IN  /\ v = 0 => t = [label |-> "Unavailable", raw |-> None]
                /\ v = 1 => t = [label |-> "Grid", raw |-> None]
                /\ v = 2 => t = [label |-> "Generator", raw |-> None]
                /\ v \in {3, 4} => t = [label |-> "Shore", raw |-> None]
                /\ v = 240 => t = [label |-> "Inverting", raw |-> None]
                /\ v \notin {0, 1, 2, 3, 4, 240} =>
                       /\ t = [label |-> "Unknown", raw |-> << v >>]
                       /\ \A i \in 1 .. Len(setCalls) : setCalls[i].value = 0

C3_Witness ==
    /\ source_text # None
    /\ ReadOk /\ ReadValue = 4
    /\ source_text[1].label = "Shore"

\* C4: a scan probes the slots from 0 upwards; if some slot offers a target
\* name it records the lowest such slot and reads nothing above it, otherwise
\* it reads every slot and records nothing.
C4_LowestMatch ==
    (lastTick = "locator" /\ scanNames # None) =>
        LET names == scanNames[1]
        IN  IF \E s \in Slots : IsTargetSlot(names, s)
            THEN LET m == CHOOSE s \in Slots :
                              /\ IsTargetSlot(names, s)
                              /\ \A k \in 0 .. (s - 1) : ~IsTargetSlot(names, k)
                 IN  /\ water_heater_relay_number = << m >>
                     /\ probed = UpTo(m + 1)
            ELSE /\ water_heater_relay_number = None
                 /\ probed = UpTo(MAX_RELAY_NUMBER_TO_CHECK)

\* two slots offer a target name and the lower one is taken
C4_Witness ==
    /\ lastTick = "locator"
    /\ scanNames # None
    /\ IsTargetSlot(scanNames[1], 0)
    /\ IsTargetSlot(scanNames[1], MAX_RELAY_NUMBER_TO_CHECK - 1)
    /\ water_heater_relay_number = << 0 >>
    /\ probed = << 0 >>

\* C5: a recovery record is logged exactly on a successful AC source read that
\* directly follows a failed one (one per run of failed reads, however long),
\* and on no other callback.
C5_OneRecoveryPerEpisode ==
    [][ Count("recovered", logs') =
            IF acReply' # None /\ acReply'[1].kind = "ok" /\ histLastReadFailed
            THEN 1 ELSE 0 ]_vars

C5_Witness ==
    /\ lastTick = "monitor"
    /\ ReadOk
    /\ Count("recovered", logs) = 1
    /\ ~warning_logged

\* C6: an unavailability warning is logged exactly on a failed AC source read
\* that does not directly follow another failed read: once per run of failed
\* reads, on its first read, and again on the first failure after a success.
C6_OneWarningPerEpisode ==
    [][ Count("unavailable", logs') =
            IF acReply' # None /\ acReply'[1].kind # "ok" /\ ~histLastReadFailed
            THEN 1 ELSE 0 ]_vars

\* a repeated failure in the Monitor, which stays silent
C6_Witness ==
    /\ lastTick = "monitor"
    /\ ReadFailed
    /\ Count("unavailable", logs) = 0
    /\ warning_logged

\* C7: initial_state_set implies that a relay has been located.
C7_InitialStateImpliesLocated ==
    initial_state_set => water_heater_relay_number # None

C7_Witness ==
    /\ initial_state_set
    /\ water_heater_relay_number = << MAX_RELAY_NUMBER_TO_CHECK - 1 >>

C9_NoMatchNoContact ==
    ~histMatchSeen =>
        /\ timers = [locator |-> 1, init |-> 0, monitor |-> 0]
        /\ water_heater_relay_number = None
        /\ ~relay_found
        /\ ~histAnyWrite
        /\ setCalls = << >>
        /\ (lastTick = "locator" => Count("retry", logs) = 1)

\* a scan that met a non-matching name and a failing read
C9_Witness ==
    /\ lastTick = "locator"
    /\ ~histMatchSeen
    /\ scanNames # None
    /\ scanNames[1][0] = Ok("Bilge")
    /\ scanNames[1][MAX_RELAY_NUMBER_TO_CHECK - 1] = GetErr
    /\ Count("retry", logs) = 1

InSeq(x, l) == \E i \in 1 .. Len(l) : l[i] = x

\* C11: between callbacks exactly one of the three timers is installed; the
\* Locator's is never installed again, the Initializer's is installed only by
\* the Locator run that removes the Locator's, and the Monitor's only by the
\* Initializer run that removes the Initializer's.
C11_OneTimerInOrder ==
    /\ [](/\ timers.locator \in {0, 1}
          /\ timers.init \in {0, 1}
          /\ timers.monitor \in {0, 1}
          /\ timers.locator + timers.init + timers.monitor = 1)
    /\ [][ /\ timers'.locator <= timers.locator
           /\ timers'.init > timers.init =>
                  /\ lastTick' = "locator"
                  /\ timers.locator = 1 /\ timers'.locator = 0
           /\ timers'.monitor > timers.monitor =>
                  /\ lastTick' = "init"
                  /\ timers.init = 1 /\ timers'.init = 0 ]_vars

\* the hand-over has reached the Monitor
C11_Witness ==
    /\ lastTick = "monitor"
    /\ timers = [locator |-> 0, init |-> 0, monitor |-> 1]

\* C12: once a relay is recorded the Locator's timer is gone for good, no
\* custom name is read again and the recorded slot never changes.
C12_LocatedForGood ==
    [][ water_heater_relay_number # None =>
            /\ water_heater_relay_number' = water_heater_relay_number
            /\ timers.locator = 0
            /\ timers'.locator = 0
            /\ probed' = << >>
            /\ scanNames' = None ]_vars

\* callbacks have run after slot 0 was recorded
C12_Witness ==
    /\ water_heater_relay_number = << 0 >>
    /\ lastTick = "monitor"
    /\ timers.locator = 0
    /\ probed = << >>

\* C13: once installed the Monitor's timer stays: every Monitor run, whatever
\* it read or wrote, leaves it installed.
C13_MonitorStaysArmed ==
    [][ /\ timers.monitor > 0 => timers'.monitor > 0
        /\ lastTick' = "monitor" =>
               (timers.monitor = 1 /\ timers'.monitor = 1) ]_vars

\* a Monitor run that could not read the source
C13_Witness ==
    /\ lastTick = "monitor"
    /\ ReadFailed
    /\ Count("unavailable", logs) = 1
    /\ timers.monitor = 1

\* C14: a Monitor run whose AC source read fails calls _set_relay_state not at
\* all and leaves the relay, previous_ac_source, the recorded relay and
\* initial_state_set as they were; only the warning flag may change.
C14_FailedReadFrame ==
    [][ (lastTick' = "monitor" /\ acReply' # None /\ acReply'[1].kind # "ok") =>
            /\ setCalls' = << >>
            /\ UNCHANGED <<relayState, previous_ac_source,
                           water_heater_relay_number, initial_state_set,
                           relay_found, timers>> ]_vars

\* a failed read that set the warning flag and left the baseline
C14_Witness ==
    /\ lastTick = "monitor"
    /\ ReadFailed
    /\ warning_logged
    /\ previous_ac_source = << 1 >>
    /\ relayState[water_heater_relay_number[1]] = 1

\* C15: a Monitor run that reads a value different from previous_ac_source
\* makes one relay write and records the value whatever the write returned; a
\* run that reads the recorded value again writes nothing, also when the write
\* for that value had failed.
C15_BaselineAlwaysAdvances ==
    [][ (lastTick' = "monitor" /\ acReply' # None /\ acReply'[1].kind = "ok") =>
            IF acReply'[1].value # previous_ac_source
            THEN /\ Len(setCalls') = 1
                 /\ previous_ac_source' = acReply'[1].value
            ELSE /\ setCalls' = << >>
                 /\ previous_ac_source' = previous_ac_source ]_vars

\* the reading stayed after a failed write: no retry, the relay is stale
C15_Witness ==
    /\ lastTick = "monitor"
    /\ ReadOk /\ ReadValue = 0
    /\ previous_ac_source = << 0 >>
    /\ setCalls = << >>
    /\ histWriteFailed
    /\ histInitSucceeded
    /\ relayState[water_heater_relay_number[1]] = 1

\* C16: every _set_relay_state call that returns False logs an error record,
\* and a call returns True only when the value was set on the relay.
C16_FailedWriteLogsError ==
    \A i \in 1 .. Len(setCalls) :
        /\ ~setCalls[i].ret => \E j \in 1 .. Len(logs) : logs[j].level = "error"
        /\ setCalls[i].ret =>
               relayState[setCalls[i].relay[1]] = setCalls[i].value

\* C17: in a scan a failed custom name read counts as no match and the next
\* slot is read; a matching slot is recorded although reads below it failed.
C17_FailedReadContinues ==
    (lastTick = "locator" /\ scanNames # None) =>
        LET names == scanNames[1]
        IN  /\ \A i \in Slots :
                   (names[i].kind # "ok" /\ InSeq(i, probed)
                    /\ i + 1 < MAX_RELAY_NUMBER_TO_CHECK)
                   => InSeq(i + 1, probed)
            /\ \A m \in Slots :
                   (/\ IsTargetSlot(names, m)
                    /\ \A k \in 0 .. (m - 1) : ~IsTargetSlot(names, k)
                    /\ \E k \in 0 .. (m - 1) : names[k].kind # "ok")
                   => water_heater_relay_number = << m >>

\* both kinds of failure below the matching last slot
C17_Witness ==
    /\ lastTick = "locator"
    /\ scanNames # None
    /\ scanNames[1][0] = GetErr
    /\ scanNames[1][1] = NoObj
    /\ IsTargetSlot(scanNames[1], MAX_RELAY_NUMBER_TO_CHECK - 1)
    /\ water_heater_relay_number = << MAX_RELAY_NUMBER_TO_CHECK - 1 >>

\* C18: the guards never fire: a Monitor run starts with initial_state_set
\* true and a recorded relay, an Initializer run with initial_state_set false
\* and a recorded relay, so both go on to read the AC source.
C18_GuardsUnreachable ==
    [][ /\ lastTick' = "monitor" =>
               /\ initial_state_set
               /\ water_heater_relay_number # None
               /\ acReply' # None
        /\ lastTick' = "init" =>
               /\ ~initial_state_set
               /\ water_heater_relay_number # None
               /\ acReply' # None ]_vars

\* an Initializer run past its guard that has to retry
C18_Witness ==
    /\ lastTick = "init"
    /\ ReadFailed
    /\ ~initial_state_set
    /\ water_heater_relay_number # None

\* C19: while no _set_relay_state call has returned False, initial_state_set
\* implies that the recorded relay is on exactly if previous_ac_source is 1, 3
\* or 4.
C19_RelayFollowsSource ==
    (initial_state_set /\ ~histWriteFailed) =>
        relayState[water_heater_relay_number[1]] =
            IF previous_ac_source[1] \in {1, 3, 4} THEN 1 ELSE 0

\* the Monitor switched the relay off
C19_Witness ==
    /\ initial_state_set
    /\ ~histWriteFailed
    /\ lastTick = "monitor"
    /\ setCalls # << >>
    /\ previous_ac_source = << 240 >>
    /\ relayState[water_heater_relay_number[1]] = 0

\* every scan made offers a target name and every AC source read made succeeds
EnvGood ==
    /\ scanNames # None => OffersTarget(scanNames[1])
    /\ acReply # None => acReply[1].kind = "ok"

\* C20: under fair dispatch of the installed timers, if from some point on
\* every scan is offered a target name and every AC source read succeeds, then
\* eventually a relay is recorded, the initial relay write has been attempted,
\* initial_state_set is true and the Monitor's timer is installed.
C20_EventuallyMonitoring ==
    <>[]EnvGood =>
        <>(/\ water_heater_relay_number # None
           /\ histInitAttempted
           /\ initial_state_set
           /\ timers.monitor = 1)

\* the Initializer got through after a retry
C20_Witness ==
    /\ lastTick = "init"
    /\ initial_state_set
    /\ histInitAttempted
    /\ Count("recovered", logs) = 1
    /\ timers.monitor = 1

====
